---- MODULE Spec2Model ----
(***************************************************************************)
(* Model of the multi-handler query-routing and result-synthesis engine    *)
(* of src/agents/smart_orchestrator_agent.py (SmartOrchestratorAgent) and  *)
(* of the handler capability it calls, BaseAgent.process_query_with_sources*)
(* in src/agents/base_agent.py.                                            *)
(*                                                                         *)
(* Numbers: selection scores are kept in tenths (3.0 -> 30, 1.5 -> 15,     *)
(* 1.0 -> 10); relevance scores are kept in units of 0.00001 (0.7 ->       *)
(* 70000, 0.70001 -> 70001).                                               *)
(***************************************************************************)
EXTENDS Integers, Sequences, FiniteSets, TLC

VARIABLES
    pc,                     \* position of the request inside process_query
    query,                  \* the query argument
    intent_arg,             \* the intent argument (None when not supplied)
    intent,                 \* local `intent` after line 72
    required_agents,        \* local `required_agents` (a list)
    next_agent,             \* index of the for loop of line 82
    agent_data,             \* local dict agent name -> handler response
    all_sources,            \* local list
    all_document_citations, \* local list
    agent_communications,   \* local list
    cross_agent_insights,   \* dict returned by _facilitate_agent_communication
    response,               \* text returned by _generate_audit_response
    document_summary,       \* dict returned by _compile_document_summary
    result,                 \* the dict returned by process_query (None before)
    calls                   \* the capability calls issued so far, in order

vars == <<pc, query, intent_arg, intent, required_agents, next_agent,
          agent_data, all_sources, all_document_citations,
          agent_communications, cross_agent_insights, response,
          document_summary, result, calls>>

None == "<None>"

(***************************************************************************)
(* Strings.  `kw in s` of Python is substring containment; str.lower()     *)
(* maps the ASCII capitals to their small letters.                         *)
(***************************************************************************)
Contains(kw, s) ==
    \E i \in 1..(Len(s) - Len(kw) + 1) : SubSeq(s, i, i + Len(kw) - 1) = kw

UpperToLower ==
    [c \in {"A", "B", "C", "D", "E", "F", "G", "H", "I", "J", "K", "L", "M",
            "N", "O", "P", "Q", "R", "S", "T", "U", "V", "W", "X", "Y", "Z"} |->
        CASE c = "A" -> "a" [] c = "B" -> "b" [] c = "C" -> "c" [] c = "D" -> "d"
          [] c = "E" -> "e" [] c = "F" -> "f" [] c = "G" -> "g" [] c = "H" -> "h"
          [] c = "I" -> "i" [] c = "J" -> "j" [] c = "K" -> "k" [] c = "L" -> "l"
          [] c = "M" -> "m" [] c = "N" -> "n" [] c = "O" -> "o" [] c = "P" -> "p"
          [] c = "Q" -> "q" [] c = "R" -> "r" [] c = "S" -> "s" [] c = "T" -> "t"
          [] c = "U" -> "u" [] c = "V" -> "v" [] c = "W" -> "w" [] c = "X" -> "x"
          [] c = "Y" -> "y" [] c = "Z" -> "z"]

RECURSIVE lower(_)
lower(s) ==
    IF Len(s) = 0 THEN ""
    ELSE LET c == SubSeq(s, 1, 1)
         IN  (IF c \in DOMAIN UpperToLower THEN UpperToLower[c] ELSE c)
                 \o lower(SubSeq(s, 2, Len(s)))

(***************************************************************************)
(* Intent classifier: _determine_audit_intent.                             *)
(***************************************************************************)
intent_patterns == <<
    [intent |-> "audit_checklist", weight |-> 10,
     keywords |-> <<"checklist", "list", "steps", "procedures", "items to check", "audit items">>],
    [intent |-> "audit_agenda", weight |-> 10,
     keywords |-> <<"agenda", "schedule", "plan", "timeline", "meeting plan", "audit plan">>],
    [intent |-> "audit_report", weight |-> 10,
     keywords |-> <<"report", "findings", "observations", "summary", "conclusion", "audit report">>],
    [intent |-> "delta_analysis", weight |-> 10,
     keywords |-> <<"changed", "delta", "since last", "updates", "what changed", "differences", "modifications">>],
    [intent |-> "health_assessment", weight |-> 10,
     keywords |-> <<"health", "status", "360", "overview", "assessment", "evaluation", "condition">>],
    [intent |-> "trend_analysis", weight |-> 10,
     keywords |-> <<"insights", "trends", "patterns", "analysis", "statistics", "metrics", "performance">>],
    [intent |-> "supplier_audit", weight |-> 10,
     keywords |-> <<"supplier", "cdmo", "vendor", "contractor", "external", "third party">>],
    [intent |-> "internal_audit", weight |-> 10,
     keywords |-> <<"internal", "site", "facility", "own", "company", "in-house">>],
    [intent |-> "regulatory_audit", weight |-> 10,
     keywords |-> <<"regulatory", "compliance", "fda", "ema", "gmp", "inspection", "regulatory audit">>],
    [intent |-> "quality_analysis", weight |-> 10,
     keywords |-> <<"quality", "deviations", "capas", "non-conformances", "quality issues", "quality events">>],
    [intent |-> "sop_review", weight |-> 10,
     keywords |-> <<"sop", "procedures", "documentation", "policies", "standard operating procedures">>],
    [intent |-> "regulatory_research", weight |-> 10,
     keywords |-> <<"regulations", "guidelines", "fda guidance", "ema guidance", "regulatory updates">>],
    [intent |-> "conference_analysis", weight |-> 10,
     keywords |-> <<"conference", "meeting", "event", "presentation", "industry", "external engagement">>] >>

\* the inner loop `for keyword in ...: if keyword in query_lower: score += w`
RECURSIVE keyword_score(_, _, _)
keyword_score(keywords, weight, query_lower) ==
    IF keywords = << >> THEN 0
    ELSE (IF Contains(Head(keywords), query_lower) THEN weight ELSE 0)
            + keyword_score(Tail(keywords), weight, query_lower)

\* the dict intent_scores, as the list of its items in insertion order
RECURSIVE intent_scores(_, _)
intent_scores(patterns, query_lower) ==
    IF patterns = << >> THEN << >>
    ELSE LET p     == Head(patterns)
             score == keyword_score(p.keywords, p.weight, query_lower)
         IN  (IF score > 0 THEN << [intent |-> p.intent, score |-> score] >> ELSE << >>)
                 \o intent_scores(Tail(patterns), query_lower)

\* the scan `for x in items: if best is None or key(x) > key(best): best = x`
PyMaxKeepsLast(items, i, best) ==
    IF items[i].score >= items[best].score THEN i ELSE best

PyMaxStep(items, i, best) ==
    IF items[i].score > items[best].score THEN i ELSE best

\* max(intent_scores, key=intent_scores.get): the first key with the largest value
RECURSIVE PyMaxFrom(_, _, _)
PyMaxFrom(items, i, best) ==
    IF i > Len(items) THEN items[best].intent
    ELSE PyMaxFrom(items, i + 1, PyMaxStep(items, i, best))

ClassifierDefaultsToFirstPattern(q) ==
    LET scores == intent_scores(intent_patterns, lower(q))
    IN  IF scores # << >> THEN PyMaxFrom(scores, 2, 1) ELSE intent_patterns[1].intent

determine_audit_intent(q) ==
    LET scores == intent_scores(intent_patterns, lower(q))
    IN  IF scores # << >> THEN PyMaxFrom(scores, 2, 1) ELSE "general_audit"

(***************************************************************************)
(* Handler selector: _determine_required_agents.                           *)
(***************************************************************************)
agent_capabilities == <<
    [agent |-> "internal_audit", weight |-> 10,
     primary_intents   |-> {"audit_checklist", "audit_agenda", "audit_report", "internal_audit"},
     secondary_intents |-> {"health_assessment", "trend_analysis", "general_audit"},
     keywords |-> <<"audit", "checklist", "procedures", "compliance", "inspection">>],
    [agent |-> "sop", weight |-> 10,
     primary_intents   |-> {"sop_review", "audit_checklist", "audit_agenda"},
     secondary_intents |-> {"delta_analysis", "health_assessment", "quality_analysis"},
     keywords |-> <<"sop", "procedures", "documentation", "policies", "standard operating">>],
    [agent |-> "quality_systems", weight |-> 10,
     primary_intents   |-> {"quality_analysis", "health_assessment", "trend_analysis"},
     secondary_intents |-> {"delta_analysis", "audit_report", "supplier_audit"},
     keywords |-> <<"quality", "deviations", "capas", "non-conformances", "quality events">>],
    [agent |-> "web_scraper", weight |-> 10,
     primary_intents   |-> {"regulatory_research", "regulatory_audit", "supplier_audit"},
     secondary_intents |-> {"health_assessment", "delta_analysis"},
     keywords |-> <<"fda", "warning", "483", "eir", "regulatory", "guidance", "compliance">>],
    [agent |-> "external_conference", weight |-> 10,
     primary_intents   |-> {"conference_analysis", "trend_analysis"},
     secondary_intents |-> {"health_assessment", "delta_analysis"},
     keywords |-> <<"conference", "meeting", "event", "presentation", "industry", "external">>] >>

companies == {"hovione", "boehringer", "thermo fisher", "gram", "grand river"}

company_agents == {"quality_systems", "web_scraper"}

PrimaryScore == 30

SecondaryScore == 15

CompanyScore == 10

ThresholdAboveSecondary == SecondaryScore + 1

threshold == 10

\* the body of the loop over agent_capabilities: one handler's score
AgentScoreWithoutCompanyBonus(capabilities, query_lower, the_intent) ==
    (IF the_intent \in capabilities.primary_intents THEN PrimaryScore
     ELSE IF the_intent \in capabilities.secondary_intents THEN SecondaryScore
     ELSE 0)
    + keyword_score(capabilities.keywords, capabilities.weight, query_lower)

AgentScoreKeywordsOnly(capabilities, query_lower, the_intent) ==
    keyword_score(capabilities.keywords, capabilities.weight, query_lower)
    + (IF /\ \E company \in companies : Contains(company, query_lower)
          /\ capabilities.agent \in company_agents
       THEN CompanyScore ELSE 0)

agent_score(capabilities, query_lower, the_intent) ==
    (IF the_intent \in capabilities.primary_intents THEN PrimaryScore
     ELSE IF the_intent \in capabilities.secondary_intents THEN SecondaryScore
     ELSE 0)
    + keyword_score(capabilities.keywords, capabilities.weight, query_lower)
    + (IF /\ \E company \in companies : Contains(company, query_lower)
          /\ capabilities.agent \in company_agents
       THEN CompanyScore ELSE 0)

\* the dict agent_scores, as the list of its items in insertion order
RECURSIVE agent_scores(_, _, _)
agent_scores(caps, query_lower, the_intent) ==
    IF caps = << >> THEN << >>
    ELSE LET score == agent_score(Head(caps), query_lower, the_intent)
         IN  (IF score > 0 THEN << [agent |-> Head(caps).agent, score |-> score] >> ELSE << >>)
                 \o agent_scores(Tail(caps), query_lower, the_intent)

\* the threshold loop: the handlers appended to required_agents
RECURSIVE threshold_selection(_)
threshold_selection(scores) ==
    IF scores = << >> THEN << >>
    ELSE (IF Head(scores).score >= threshold THEN << Head(scores).agent >> ELSE << >>)
            \o threshold_selection(Tail(scores))

NoFallback(selected) == selected

\* `if not required_agents: required_agents = ['internal_audit']`
ensure_one_agent(selected) ==
    IF selected = << >> THEN << "internal_audit" >> ELSE selected

Range(s) == {s[i] : i \in DOMAIN s}

\* list(set(xs)): the elements of xs, each once, in an order that depends on
\* the string hashes of the run, hence any order
ListOfSetTruncated(xs) ==
    {SubSeq(l, 1, IF Len(l) > 2 THEN 2 ELSE Len(l)) :
        l \in {k \in [1..Cardinality(Range(xs)) -> Range(xs)] : Range(k) = Range(xs)}}

ListOfSet(xs) ==
    {l \in [1..Cardinality(Range(xs)) -> Range(xs)] : Range(l) = Range(xs)}

\* the lists _determine_required_agents can return
determine_required_agents(q, the_intent) ==
    ListOfSet(ensure_one_agent(threshold_selection(
        agent_scores(agent_capabilities, lower(q), the_intent))))

(***************************************************************************)
(* Python dicts are functions with a finite domain.                        *)
(***************************************************************************)
EmptyDict == << >>

\* d[k] = v
PutDropped(d, k, v) == d

Put(d, k, v) == [x \in DOMAIN d \cup {k} |-> IF x = k THEN v ELSE d[x]]

\* d.get(k, default)
Get(d, k, default) == IF k \in DOMAIN d THEN d[k] ELSE default

(***************************************************************************)
(* The handler capability: BaseAgent.process_query_with_sources.  A match  *)
(* of the vector index is [score, file_path]; a score the index reports as *)
(* null is NoneScore.                                                      *)
(***************************************************************************)
NoneScore == -1

\* os.path.splitext(p)[1]: from the last dot of the last path component,
\* unless that dot is the component's first character
RECURSIVE last_index(_, _, _)
last_index(c, s, i) ==
    IF i = 0 THEN 0
    ELSE IF SubSeq(s, i, i) = c THEN i ELSE last_index(c, s, i - 1)

splitext_ext(p) ==
    LET slash == last_index("/", p, Len(p))
        dot   == last_index(".", p, Len(p))
    IN  IF dot > slash + 1 THEN SubSeq(p, dot, Len(p)) ELSE ""

\* BaseAgent._get_file_extension
get_file_extension(file_path) ==
    IF file_path = "" THEN "Unknown" ELSE lower(splitext_ext(file_path))

\* the source entry built for the i-th search result
make_source(agent_name, i, match) ==
    [document_id |-> i, score |-> match.score, agent |-> agent_name,
     file_extension |-> get_file_extension(match.file_path)]

\* the citation entry built for the i-th search result
make_citation(agent_name, i, match) ==
    [document_id |-> i, relevance_score |-> match.score, agent |-> agent_name,
     file_extension |-> get_file_extension(match.file_path)]

\* the dict process_query_with_sources returns when neither the search nor
\* the text generation raises
process_query_with_sources(agent_name, matches, response_text) ==
    [response           |-> response_text,
     sources            |-> [i \in 1..Len(matches) |-> make_source(agent_name, i, matches[i])],
     document_citations |-> [i \in 1..Len(matches) |-> make_citation(agent_name, i, matches[i])],
     agent              |-> agent_name,
     total_documents    |-> Len(matches)]

(***************************************************************************)
(* _compile_document_summary.                                              *)
(***************************************************************************)
HighRelevanceCutoff == 70000

NeverRaises(citations) == FALSE

\* `citation.get('relevance_score', 0) > 0.7` raises TypeError on a null score
compile_raises(citations) ==
    \E i \in DOMAIN citations : citations[i].relevance_score = NoneScore

IsHighRelevanceInclusive(citation) == citation.relevance_score >= HighRelevanceCutoff

IsHighRelevance(citation) == citation.relevance_score > HighRelevanceCutoff

CountAllButFirst(citations) == Len(citations) - 1

\* len(document_citations)
total_documents_of(citations) == Len(citations)

\* document_types after the loop has handled the first n citations
RECURSIVE DocumentTypesWithUnknownBucket(_, _)
DocumentTypesWithUnknownBucket(citations, n) ==
    IF n = 0 THEN EmptyDict
    ELSE LET types    == DocumentTypesWithUnknownBucket(citations, n - 1)
             ext      == lower(Get(citations[n], "file_extension", ""))
             file_ext == IF ext = "" THEN "unknown" ELSE ext
         IN  Put(types, file_ext, Get(types, file_ext, 0) + 1)

RECURSIVE document_types_of(_, _)
document_types_of(citations, n) ==
    IF n = 0 THEN EmptyDict
    ELSE LET types    == document_types_of(citations, n - 1)
             file_ext == lower(Get(citations[n], "file_extension", ""))
         IN  IF file_ext # "" THEN Put(types, file_ext, Get(types, file_ext, 0) + 1)
             ELSE types

\* agents_used after the loop has handled the first n citations
RECURSIVE agents_used_of(_, _)
agents_used_of(citations, n) ==
    IF n = 0 THEN << >>
    ELSE LET used  == agents_used_of(citations, n - 1)
             agent == Get(citations[n], "agent", "unknown")
         IN  IF agent \notin Range(used) THEN Append(used, agent) ELSE used

high_relevance_entry(citation) ==
    [document_id |-> citation.document_id, agent |-> Get(citation, "agent", "unknown"),
     relevance_score |-> citation.relevance_score]

\* high_relevance_documents after the loop has handled the first n citations
RECURSIVE high_relevance_of(_, _)
high_relevance_of(citations, n) ==
    IF n = 0 THEN << >>
    ELSE LET high == high_relevance_of(citations, n - 1)
         IN  IF IsHighRelevance(citations[n])
             THEN Append(high, high_relevance_entry(citations[n]))
             ELSE high

breakdown_entry(citation) ==
    [document_id |-> citation.document_id, relevance_score |-> citation.relevance_score]

\* document_breakdown after the loop has handled the first n citations
RECURSIVE DocumentBreakdownNewestFirst(_, _)
DocumentBreakdownNewestFirst(citations, n) ==
    IF n = 0 THEN EmptyDict
    ELSE LET breakdown == DocumentBreakdownNewestFirst(citations, n - 1)
             agent     == Get(citations[n], "agent", "unknown")
         IN  Put(breakdown, agent,
                 << breakdown_entry(citations[n]) >> \o Get(breakdown, agent, << >>))

RECURSIVE document_breakdown_of(_, _)
document_breakdown_of(citations, n) ==
    IF n = 0 THEN EmptyDict
    ELSE LET breakdown == document_breakdown_of(citations, n - 1)
             agent     == Get(citations[n], "agent", "unknown")
         IN  Put(breakdown, agent,
                 Append(Get(breakdown, agent, << >>), breakdown_entry(citations[n])))

\* the dict returned when no comparison raises
CompileSummaryUniform(citations) ==
    [total_documents          |-> total_documents_of(citations),
     document_types           |-> document_types_of(citations, Len(citations)),
     agents_used              |-> agents_used_of(citations, Len(citations)),
     high_relevance_documents |-> high_relevance_of(citations, Len(citations)),
     document_breakdown       |-> document_breakdown_of(citations, Len(citations))]

compile_document_summary(citations) ==
    IF citations = << >>
    THEN [total_documents |-> 0, document_types |-> EmptyDict, agents_used |-> << >>]
    ELSE [total_documents          |-> total_documents_of(citations),
          document_types           |-> document_types_of(citations, Len(citations)),
          agents_used              |-> agents_used_of(citations, Len(citations)),
          high_relevance_documents |-> high_relevance_of(citations, Len(citations)),
          document_breakdown       |-> document_breakdown_of(citations, Len(citations))]

(***************************************************************************)
(* Inputs of a request and outcomes of the external capabilities.          *)
(***************************************************************************)
MaxMatches == 1         \* search results per handler call (the code asks for 8)

MaxMerged == 2          \* cap on the merged sources of one request

Queries ==
    {"hello",
     "Generate a checklist for supplier audit of Acme Pharma",
     "SOP audit"}

IntentArgs == {None, "", "custom_intent", "audit_report", "supplier_audit"}

\* what the vector index can hold for a handler
KnowledgeBase ==
    {[score |-> 75000,     file_path |-> "reports/Audit.PDF"],
     [score |-> NoneScore, file_path |-> ""]}

SearchResults == UNION {[1..n -> KnowledgeBase] : n \in 0..MaxMatches}

ResponseTexts == {"", "findings"}

HandlerErrors == {"search failed", "generation failed"}

InsightTexts == {"", "insight"}

SynthesisTexts == {"answer"}

LlmError == "llm failure"

SumTypeError == "unsupported operand type(s) for +: 'int' and 'NoneType'"

\* the keys of self.agents
agents == {"web_scraper", "internal_audit", "external_conference", "quality_systems", "sop"}

RECURSIVE SumScores(_)
SumScores(sources) ==
    IF sources = << >> THEN 0 ELSE Head(sources).score + SumScores(Tail(sources))

Call(kind, target, raised) == [call |-> kind, target |-> target, raised |-> raised]

(***************************************************************************)
(* SmartOrchestratorAgent.process_query, one action per stretch of code    *)
(* between two external capability calls.                                  *)
(***************************************************************************)
NoInsight == "{}"       \* the empty dict a key of cross_agent_insights starts with

Init ==
    /\ pc = "idle"
    /\ query = None
    /\ intent_arg = None
    /\ intent = None
    /\ required_agents = << >>
    /\ next_agent = 1
    /\ agent_data = EmptyDict
    /\ all_sources = << >>
    /\ all_document_citations = << >>
    /\ agent_communications = << >>
    /\ cross_agent_insights = EmptyDict
    /\ response = None
    /\ document_summary = EmptyDict
    /\ result = None
    /\ calls = << >>

\* line 72, `intent or self._determine_audit_intent(query)`: None and the
\* empty string are falsy
ResolveIntentAlwaysClassifies(q, supplied) == determine_audit_intent(q)

resolve_intent(q, supplied) ==
    IF supplied \in {None, ""} THEN determine_audit_intent(q) ELSE supplied

\* lines 68-79: intent, handler selection, empty accumulators
ProcessQuery(q, supplied) ==
    /\ pc = "idle"
    /\ query' = q
    /\ intent_arg' = supplied
    /\ intent' = resolve_intent(q, supplied)
    /\ required_agents' \in determine_required_agents(q, intent')
    /\ next_agent' = 1
    /\ agent_data' = EmptyDict
    /\ all_sources' = << >>
    /\ all_document_citations' = << >>
    /\ agent_communications' = << >>
    /\ pc' = IF required_agents' = << >> THEN "correlate" ELSE "dispatch"
    /\ UNCHANGED <<cross_agent_insights, response, document_summary, result, calls>>

ErrorEntryWithoutMessage(agent_name, message) ==
    [agent |-> agent_name, status |-> "error", error |-> ""]

ErrorEntry(agent_name, message) ==
    [agent |-> agent_name, status |-> "error", error |-> message]

CompletedEntryWithoutCount(agent_name, agent_response) ==
    [agent |-> agent_name, status |-> "completed",
     documents_found |-> 0,
     relevance_score |-> SumScores(agent_response.sources)]

CompletedEntry(agent_name, agent_response) ==
    [agent |-> agent_name, status |-> "completed",
     documents_found |-> Len(agent_response.sources),
     relevance_score |-> SumScores(agent_response.sources)]

AfterDispatchEager == "correlate"

\* the end of the loop of line 82: the next handler, or on to line 117
AfterDispatch == IF next_agent >= Len(required_agents) THEN "correlate" ELSE "dispatch"

HandlerFailedSilently(agent_name, message) ==
    /\ agent_data' = Put(agent_data, agent_name, [error |-> message])
    /\ UNCHANGED agent_communications

\* the except branch of lines 108-114
HandlerFailed(agent_name, message) ==
    /\ agent_data' = Put(agent_data, agent_name, [error |-> message])
    /\ agent_communications' = Append(agent_communications, ErrorEntry(agent_name, message))

\* lines 82-114 for one handler whose capability call raises
DispatchRaisesAfterRetry(message) ==
    /\ pc = "dispatch"
    /\ next_agent <= Len(required_agents)
    /\ LET agent_name == required_agents[next_agent]
       IN  /\ agent_name \in agents
           /\ calls' = calls \o << Call("handler", agent_name, message),
                                   Call("handler", agent_name, message) >>
           /\ HandlerFailed(agent_name, message)
    /\ next_agent' = next_agent + 1
    /\ pc' = AfterDispatch
    /\ UNCHANGED <<query, intent_arg, intent, required_agents, all_sources,
                   all_document_citations, cross_agent_insights, response,
                   document_summary, result>>

DispatchRaises(message) ==
    /\ pc = "dispatch"
    /\ next_agent <= Len(required_agents)
    /\ LET agent_name == required_agents[next_agent]
       IN  /\ agent_name \in agents
           /\ calls' = Append(calls, Call("handler", agent_name, message))
           /\ HandlerFailed(agent_name, message)
    /\ next_agent' = next_agent + 1
    /\ pc' = AfterDispatch
    /\ UNCHANGED <<query, intent_arg, intent, required_agents, all_sources,
                   all_document_citations, cross_agent_insights, response,
                   document_summary, result>>

\* lines 82-114 for one handler whose capability call returns
DispatchReturns(matches, response_text) ==
    /\ pc = "dispatch"
    /\ next_agent <= Len(required_agents)
    /\ Len(all_sources) + Len(matches) <= MaxMerged
    /\ LET agent_name     == required_agents[next_agent]
           agent_response == process_query_with_sources(agent_name, matches, response_text)
       IN  /\ agent_name \in agents
           /\ calls' = Append(calls, Call("handler", agent_name, None))
           /\ all_sources' = all_sources \o
                  [i \in DOMAIN agent_response.sources |->
                      [agent_response.sources[i] EXCEPT !.agent = agent_name]]
           /\ all_document_citations' = all_document_citations \o
                  [i \in DOMAIN agent_response.document_citations |->
                      [agent_response.document_citations[i] EXCEPT !.agent = agent_name]]
           /\ IF \E i \in DOMAIN agent_response.sources :
                     agent_response.sources[i].score = NoneScore
              THEN \* sum() of line 105 raises inside the try block
                   HandlerFailed(agent_name, SumTypeError)
              ELSE /\ agent_data' = Put(agent_data, agent_name, agent_response)
                   /\ agent_communications' =
                          Append(agent_communications, CompletedEntry(agent_name, agent_response))
    /\ next_agent' = next_agent + 1
    /\ pc' = AfterDispatch
    /\ UNCHANGED <<query, intent_arg, intent, required_agents,
                   cross_agent_insights, response, document_summary, result>>

InsightsKeptOnInstance ==
    IF cross_agent_insights = EmptyDict
    THEN [quality_audit_correlation  |-> NoInsight,
          regulatory_compliance_gaps |-> NoInsight,
          sop_quality_alignment      |-> NoInsight,
          trend_cross_validation     |-> NoInsight,
          risk_factor_identification |-> NoInsight]
    ELSE cross_agent_insights

\* lines 669-675: the dict every call of _facilitate_agent_communication starts with
InitialInsights ==
    [quality_audit_correlation  |-> NoInsight,
     regulatory_compliance_gaps |-> NoInsight,
     sop_quality_alignment      |-> NoInsight,
     trend_cross_validation     |-> NoInsight,
     risk_factor_identification |-> NoInsight]

EitherResponded(data, first, second) ==
    /\ first \in DOMAIN data
    /\ second \in DOMAIN data
    /\ \/ Get(data[first], "response", "") # ""
       \/ Get(data[second], "response", "") # ""

\* the guards of lines 678-682 and 711-715: both handlers have an entry and
\* both response texts are non-empty
BothResponded(data, first, second) ==
    /\ first \in DOMAIN data
    /\ second \in DOMAIN data
    /\ Get(data[first], "response", "") # ""
    /\ Get(data[second], "response", "") # ""

LlmOutcomes(texts) == {[ok |-> TRUE, text |-> t] : t \in texts} \cup {[ok |-> FALSE, text |-> LlmError]}

CorrelationValueUnmarked(outcome, error_prefix) ==
    IF outcome.ok THEN outcome.text ELSE NoInsight

\* the try/except around a correlation call: the generated text, or the
\* error marker f"{prefix}{str(e)}"
CorrelationValue(outcome, error_prefix) ==
    IF outcome.ok THEN outcome.text ELSE error_prefix \o outcome.text

QualityAuditPrefix == "Error in correlation analysis: "

CompliancePrefix == "Error in compliance analysis: "

\* lines 117, 667-708: quality_systems / internal_audit correlation is run
CorrelateQualityAudit(outcome) ==
    /\ pc = "correlate"
    /\ BothResponded(agent_data, "quality_systems", "internal_audit")
    /\ calls' = Append(calls, Call("correlation", "quality_audit_correlation",
                           IF outcome.ok THEN None ELSE outcome.text))
    /\ cross_agent_insights' =
           [InitialInsights EXCEPT !.quality_audit_correlation =
               CorrelationValue(outcome, QualityAuditPrefix)]
    /\ pc' = "correlate_compliance"
    /\ UNCHANGED <<query, intent_arg, intent, required_agents, next_agent, agent_data,
                   all_sources, all_document_citations, agent_communications,
                   response, document_summary, result>>

\* lines 117, 667-682: a side of the pair is missing or empty, no call
SkipQualityAudit ==
    /\ pc = "correlate"
    /\ ~BothResponded(agent_data, "quality_systems", "internal_audit")
    /\ cross_agent_insights' = InitialInsights
    /\ pc' = "correlate_compliance"
    /\ UNCHANGED <<query, intent_arg, intent, required_agents, next_agent, agent_data,
                   all_sources, all_document_citations, agent_communications,
                   response, document_summary, result, calls>>

\* lines 710-743: sop / web_scraper correlation is run, and the return
CorrelateSopRegulatory(outcome) ==
    /\ pc = "correlate_compliance"
    /\ BothResponded(agent_data, "sop", "web_scraper")
    /\ calls' = Append(calls, Call("correlation", "regulatory_compliance_gaps",
                           IF outcome.ok THEN None ELSE outcome.text))
    /\ cross_agent_insights' =
           [cross_agent_insights EXCEPT !.regulatory_compliance_gaps =
               CorrelationValue(outcome, CompliancePrefix)]
    /\ pc' = "synthesize"
    /\ UNCHANGED <<query, intent_arg, intent, required_agents, next_agent, agent_data,
                   all_sources, all_document_citations, agent_communications,
                   response, document_summary, result>>

\* lines 710-715, 743: a side of the pair is missing or empty, no call
SkipSopRegulatory ==
    /\ pc = "correlate_compliance"
    /\ ~BothResponded(agent_data, "sop", "web_scraper")
    /\ pc' = "synthesize"
    /\ UNCHANGED <<query, intent_arg, intent, required_agents, next_agent, agent_data,
                   all_sources, all_document_citations, agent_communications,
                   cross_agent_insights, response, document_summary, result, calls>>

\* _generate_audit_response: the generator the intent is routed to
DedicatedTemplates ==
    {"audit_checklist", "audit_agenda", "audit_report", "delta_analysis",
     "health_assessment", "trend_analysis", "quality_analysis", "sop_review",
     "regulatory_research", "conference_analysis"}

\* the handlers whose response text the generator of a template reads with
\* agent_data.get(name, {}).get('response', '')
template_reads(template) ==
    CASE template = "audit_checklist"     -> {"sop", "quality_systems", "internal_audit"}
      [] template = "audit_agenda"        -> {"sop", "quality_systems"}
      [] template = "delta_analysis"      -> {"sop", "quality_systems", "web_scraper"}
      [] template = "health_assessment"   -> {"quality_systems", "web_scraper", "internal_audit"}
      [] template = "trend_analysis"      -> {"quality_systems", "internal_audit"}
      [] template = "quality_analysis"    -> {"quality_systems", "internal_audit"}
      [] template = "sop_review"          -> {"sop", "web_scraper"}
      [] template = "regulatory_research" -> {"web_scraper", "sop"}
      [] template = "conference_analysis" -> {"external_conference", "quality_systems"}
      [] OTHER                            -> {}

TemplateAlwaysGeneral(the_intent) == "general"

template_of(the_intent) ==
    IF the_intent \in DedicatedTemplates THEN the_intent ELSE "general"

SwallowedSynthesisFailure ==
    /\ pc = "synthesize"
    /\ calls' = Append(calls, Call("synthesis", template_of(intent), LlmError))
    /\ response' = ""
    /\ pc' = "returned"
    /\ result' = [query |-> query, intent |-> intent, response |-> "",
                  involved_agents |-> required_agents, agent_data |-> agent_data,
                  agent_communications |-> agent_communications,
                  cross_agent_insights |-> cross_agent_insights,
                  sources |-> all_sources, document_citations |-> all_document_citations,
                  document_summary |-> EmptyDict]
    /\ UNCHANGED <<query, intent_arg, intent, required_agents, next_agent, agent_data,
                   all_sources, all_document_citations, agent_communications,
                   cross_agent_insights, document_summary>>

\* lines 120-137 when the generation call of the chosen template raises:
\* nothing catches it, process_query raises
SynthesisRaises ==
    /\ pc = "synthesize"
    /\ calls' = Append(calls, Call("synthesis", template_of(intent), LlmError))
    /\ pc' = "raised"
    /\ UNCHANGED <<query, intent_arg, intent, required_agents, next_agent, agent_data,
                   all_sources, all_document_citations, agent_communications,
                   cross_agent_insights, response, document_summary, result>>

\* lines 120-137 when the generation call returns: the summary is compiled
\* and the result dict is returned, unless a comparison in the summary raises
SynthesisReturns(text) ==
    /\ pc = "synthesize"
    /\ calls' = Append(calls, Call("synthesis", template_of(intent), None))
    /\ response' = text
    /\ IF compile_raises(all_document_citations)
       THEN /\ pc' = "raised"
            /\ UNCHANGED <<document_summary, result>>
       ELSE /\ pc' = "returned"
            /\ document_summary' = compile_document_summary(all_document_citations)
            /\ result' = [query                |-> query,
                          intent               |-> intent,
                          response             |-> text,
                          involved_agents      |-> required_agents,
                          agent_data           |-> agent_data,
                          agent_communications |-> agent_communications,
                          cross_agent_insights |-> cross_agent_insights,
                          sources              |-> all_sources,
                          document_citations   |-> all_document_citations,
                          document_summary     |-> document_summary']
    /\ UNCHANGED <<query, intent_arg, intent, required_agents, next_agent, agent_data,
                   all_sources, all_document_citations, agent_communications,
                   cross_agent_insights>>

Next ==
    \/ \E q \in Queries, supplied \in IntentArgs : ProcessQuery(q, supplied)
    \/ \E message \in HandlerErrors : DispatchRaises(message)
    \/ \E matches \in SearchResults, text \in ResponseTexts : DispatchReturns(matches, text)
    \/ \E outcome \in LlmOutcomes(InsightTexts) : CorrelateQualityAudit(outcome)
    \/ SkipQualityAudit
    \/ \E outcome \in LlmOutcomes(InsightTexts) : CorrelateSopRegulatory(outcome)
    \/ SkipSopRegulatory
    \/ \E text \in SynthesisTexts : SynthesisReturns(text)
    \/ SynthesisRaises

Spec == Init /\ [][Next]_vars

(***************************************************************************)
(* _compile_document_summary on its own: the citation lists process_query  *)
(* can hand to it are the citations of one handler after the other.        *)
(***************************************************************************)
MaxCitations == 3

SummaryHandlers == <<"internal_audit", "sop">>

SummaryMatches ==
    [score : {65000, 70000, 70001, 75000, NoneScore},
     file_path : {"", "notes", "docs/Plan.PDF"}]

MatchLists(n) == UNION {[1..k -> SummaryMatches] : k \in 0..n}

citations_of(agent_name, matches) ==
    process_query_with_sources(agent_name, matches, "").document_citations

InitSummary ==
    /\ pc = "summary_input"
    /\ query = None
    /\ intent_arg = None
    /\ intent = None
    /\ required_agents \in ListOfSet(SummaryHandlers)
    /\ next_agent = 1
    /\ agent_data = EmptyDict
    /\ all_sources = << >>
    /\ \E first \in MatchLists(MaxCitations) :
           \E second \in MatchLists(MaxCitations - Len(first)) :
               all_document_citations =
                   citations_of(required_agents[1], first)
                       \o citations_of(required_agents[2], second)
    /\ agent_communications = << >>
    /\ cross_agent_insights = EmptyDict
    /\ response = None
    /\ document_summary = EmptyDict
    /\ result = None
    /\ calls = << >>

\* line 123 when no comparison raises
CompileSummaryReturns ==
    /\ pc = "summary_input"
    /\ ~compile_raises(all_document_citations)
    /\ document_summary' = compile_document_summary(all_document_citations)
    /\ pc' = "summary_compiled"
    /\ UNCHANGED <<query, intent_arg, intent, required_agents, next_agent, agent_data,
                   all_sources, all_document_citations, agent_communications,
                   cross_agent_insights, response, result, calls>>

\* line 123 when the score comparison of line 771 raises
CompileSummaryRaises ==
    /\ pc = "summary_input"
    /\ compile_raises(all_document_citations)
    /\ pc' = "summary_raised"
    /\ UNCHANGED <<query, intent_arg, intent, required_agents, next_agent, agent_data,
                   all_sources, all_document_citations, agent_communications,
                   cross_agent_insights, response, document_summary, result, calls>>

NextSummary == CompileSummaryReturns \/ CompileSummaryRaises

SpecSummary == InitSummary /\ [][NextSummary]_vars

(***************************************************************************)
(* Lines 72-73 on their own, over a larger set of queries: the words of    *)
(* RoutingWords joined by blanks, and the queries of the routing test.     *)
(***************************************************************************)
MaxWords == 2

RoutingWords ==
    {"hello", "checklist", "audit", "report", "procedures", "FDA", "guidance",
     "quality", "Hovione"}

TestQueries == <<
    "Generate a comprehensive audit checklist for Hovione sterile manufacturing facility",
    "What are the recent quality deviations and CAPAs for Boehringer Ingelheim?",
    "Review SOP compliance with current FDA regulations and EU GMP guidelines",
    "Provide 360-degree health status assessment for Thermo Fisher CDMO",
    "What changed in our quality systems since the last audit?",
    "Research recent FDA warning letters and regulatory updates",
    "Analyze industry trends from recent conferences and external engagements",
    "Create a detailed audit report with findings and recommendations" >>

\* the expected_intent column of the routing test table
ExpectedIntents == <<
    "audit_checklist", "quality_analysis", "sop_review", "health_assessment",
    "delta_analysis", "regulatory_research", "conference_analysis", "audit_report" >>

\* the expected_agents column of the routing test table
ExpectedAgents == <<
    {"internal_audit", "sop", "quality_systems"},
    {"quality_systems", "internal_audit"},
    {"sop", "web_scraper"},
    {"quality_systems", "web_scraper", "external_conference"},
    {"quality_systems", "sop", "external_conference"},
    {"web_scraper", "sop"},
    {"external_conference", "quality_systems"},
    {"internal_audit", "quality_systems", "sop"} >>

RECURSIVE JoinWords(_)
JoinWords(words) ==
    IF Len(words) = 1 THEN words[1] ELSE words[1] \o " " \o JoinWords(Tail(words))

RoutingQueries ==
    Range(TestQueries) \cup Queries
        \cup {JoinWords(words) : words \in UNION {[1..n -> RoutingWords] : n \in 1..MaxWords}}

RoutingIntentArgs ==
    {None, "", "custom_intent"} \cup {intent_patterns[i].intent : i \in DOMAIN intent_patterns}

InitRouting ==
    /\ pc = "routing_input"
    /\ query \in RoutingQueries
    /\ intent_arg \in RoutingIntentArgs
    /\ intent = None
    /\ required_agents = << >>
    /\ next_agent = 1
    /\ agent_data = EmptyDict
    /\ all_sources = << >>
    /\ all_document_citations = << >>
    /\ agent_communications = << >>
    /\ cross_agent_insights = EmptyDict
    /\ response = None
    /\ document_summary = EmptyDict
    /\ result = None
    /\ calls = << >>

\* line 72 when no intent is supplied
ClassifyQuery ==
    /\ pc = "routing_input"
    /\ intent_arg \in {None, ""}
    /\ intent' = determine_audit_intent(query)
    /\ pc' = "routing_intent"
    /\ UNCHANGED <<query, intent_arg, required_agents, next_agent, agent_data,
                   all_sources, all_document_citations, agent_communications,
                   cross_agent_insights, response, document_summary, result, calls>>

\* line 72 when the caller supplies the intent
UseSuppliedIntent ==
    /\ pc = "routing_input"
    /\ intent_arg \notin {None, ""}
    /\ intent' = intent_arg
    /\ pc' = "routing_intent"
    /\ UNCHANGED <<query, intent_arg, required_agents, next_agent, agent_data,
                   all_sources, all_document_citations, agent_communications,
                   cross_agent_insights, response, document_summary, result, calls>>

\* line 73
SelectAgents ==
    /\ pc = "routing_intent"
    /\ required_agents' \in determine_required_agents(query, intent)
    /\ pc' = "routing_selected"
    /\ UNCHANGED <<query, intent_arg, intent, next_agent, agent_data,
                   all_sources, all_document_citations, agent_communications,
                   cross_agent_insights, response, document_summary, result, calls>>

\* line 73 of a second request with the same query and the same intent
SelectAgentsAgain ==
    /\ pc = "routing_selected"
    /\ required_agents' \in determine_required_agents(query, intent)
    /\ pc' = "routing_reselected"
    /\ UNCHANGED <<query, intent_arg, intent, next_agent, agent_data,
                   all_sources, all_document_citations, agent_communications,
                   cross_agent_insights, response, document_summary, result, calls>>

NextRouting == ClassifyQuery \/ UseSuppliedIntent \/ SelectAgents

SpecRouting == InitRouting /\ [][NextRouting]_vars

(***************************************************************************)
(* Lines 72-73 of two requests with the same query and the same intent:    *)
(* the selector is called a second time.                                   *)
(***************************************************************************)
RepeatQueries == Range(TestQueries) \cup Queries \cup RoutingWords

InitRepeat == InitRouting /\ query \in RepeatQueries

NextRepeat == NextRouting \/ SelectAgentsAgain

SpecRepeat == InitRepeat /\ [][NextRepeat]_vars

(***************************************************************************)
(* OrchestratorAgent.process_query, the routing path in which a language   *)
(* model names the handlers (orchestrator_agent.py).  required_agents      *)
(* holds the names agent_selection maps to a true value, in the order of   *)
(* the dict; intent holds output_type; agent_data holds agent_responses.   *)
(***************************************************************************)
\* the keys of self.agents, in the order of the dict literal
RegistryOrder ==
    << "web_scraper", "internal_audit", "external_conference", "quality_systems", "sop" >>

OrchestratorQueries == {"hello", "SOP audit report"}

OrchestratorIntentArgs == {None, "", "insights"}

\* what the routing call can answer: a JSON object that gives some handlers
\* the value true, a JSON object naming a handler that does not exist, JSON
\* that is no object, or text that is no JSON
RoutingReplies ==
    {[kind |-> "json_object", involved |-> SelectSeq(RegistryOrder, LAMBDA a : a \in S)] :
        S \in SUBSET agents}
    \cup {[kind |-> "json_object", involved |-> << "sop", "auditor" >>],
          [kind |-> "json_array", involved |-> << >>],
          [kind |-> "unparseable", involved |-> << >>]}

SelectionIgnoresParseFailure(reply) == reply.involved

\* the try/except around json.loads in _determine_agent_involvement
determine_agent_involvement(reply) ==
    IF reply.kind = "unparseable" THEN RegistryOrder ELSE reply.involved

ContainsAny(words, query_lower) == \E w \in words : Contains(w, query_lower)

determine_output_type(q) ==
    LET query_lower == lower(q)
    IN  IF ContainsAny({"checklist", "list", "steps", "procedures"}, query_lower)
        THEN "checklist"
        ELSE IF ContainsAny({"report", "analysis", "summary", "overview"}, query_lower)
        THEN "report"
        ELSE IF ContainsAny({"insights", "trends", "patterns"}, query_lower)
        THEN "insights"
        ELSE "general"

\* the dict a handler's process_query returns
agent_process_query(matches, response_text) ==
    [response |-> response_text,
     sources  |-> [i \in DOMAIN matches |->
                      [score |-> matches[i].score, file_path |-> matches[i].file_path]]]

NoInformation ==
    "I couldn't find relevant information for your query. Please try rephrasing or ask about a different topic."

InitOrchestrator ==
    /\ pc = "orch_idle"
    /\ query = None
    /\ intent_arg = None
    /\ intent = None
    /\ required_agents = << >>
    /\ next_agent = 1
    /\ agent_data = EmptyDict
    /\ all_sources = << >>
    /\ all_document_citations = << >>
    /\ agent_communications = << >>
    /\ cross_agent_insights = EmptyDict
    /\ response = None
    /\ document_summary = EmptyDict
    /\ result = None
    /\ calls = << >>

\* line 49 when the routing call itself raises: nothing catches it
OrchRoutingRaises(q, supplied) ==
    /\ pc = "orch_idle"
    /\ query' = q
    /\ intent_arg' = supplied
    /\ calls' = Append(calls, Call("routing", "llm", LlmError))
    /\ pc' = "orch_raised"
    /\ UNCHANGED <<intent, required_agents, next_agent, agent_data, all_sources,
                   all_document_citations, agent_communications, cross_agent_insights,
                   response, document_summary, result>>

\* lines 47-56: handler selection from the routing reply, output type, empty
\* accumulators; a reply that is JSON but no object has no items() at line 58
OrchProcessQuery(q, supplied, reply) ==
    /\ pc = "orch_idle"
    /\ query' = q
    /\ intent_arg' = supplied
    /\ calls' = Append(calls, Call("routing", reply.kind, None))
    /\ required_agents' = determine_agent_involvement(reply)
    /\ intent' = IF supplied \in {None, ""} THEN determine_output_type(q) ELSE supplied
    /\ next_agent' = 1
    /\ agent_data' = EmptyDict
    /\ all_sources' = << >>
    /\ pc' = IF reply.kind = "json_array" THEN "orch_raised"
             ELSE IF required_agents' = << >> THEN "orch_synthesize"
             ELSE "orch_dispatch"
    /\ UNCHANGED <<all_document_citations, agent_communications, cross_agent_insights,
                   response, document_summary, result>>

OrchAfterDispatch ==
    IF next_agent >= Len(required_agents) THEN "orch_synthesize" ELSE "orch_dispatch"

\* line 60 for a name that is no key of self.agents: KeyError
OrchUnknownAgent ==
    /\ pc = "orch_dispatch"
    /\ required_agents[next_agent] \notin agents
    /\ pc' = "orch_raised"
    /\ UNCHANGED <<query, intent_arg, intent, required_agents, next_agent, agent_data,
                   all_sources, all_document_citations, agent_communications,
                   cross_agent_insights, response, document_summary, result, calls>>

OrchDispatchRaisesIsolated(message) ==
    /\ pc = "orch_dispatch"
    /\ required_agents[next_agent] \in agents
    /\ calls' = Append(calls, Call("handler", required_agents[next_agent], message))
    /\ agent_data' = Put(agent_data, required_agents[next_agent], [error |-> message])
    /\ next_agent' = next_agent + 1
    /\ pc' = OrchAfterDispatch
    /\ UNCHANGED <<query, intent_arg, intent, required_agents, all_sources,
                   all_document_citations, agent_communications, cross_agent_insights,
                   response, document_summary, result>>

\* lines 58-62 for a handler whose process_query raises: nothing catches it
OrchDispatchRaises(message) ==
    /\ pc = "orch_dispatch"
    /\ required_agents[next_agent] \in agents
    /\ calls' = Append(calls, Call("handler", required_agents[next_agent], message))
    /\ pc' = "orch_raised"
    /\ UNCHANGED <<query, intent_arg, intent, required_agents, next_agent, agent_data,
                   all_sources, all_document_citations, agent_communications,
                   cross_agent_insights, response, document_summary, result>>

\* lines 58-68 for a handler whose process_query returns
OrchDispatchReturns(matches, response_text) ==
    /\ pc = "orch_dispatch"
    /\ required_agents[next_agent] \in agents
    /\ Len(all_sources) + Len(matches) <= MaxMerged
    /\ LET agent_name     == required_agents[next_agent]
           agent_response == agent_process_query(matches, response_text)
       IN  /\ calls' = Append(calls, Call("handler", agent_name, None))
           /\ agent_data' = Put(agent_data, agent_name, agent_response)
           /\ all_sources' = all_sources \o
                  [i \in DOMAIN agent_response.sources |->
                      [score     |-> agent_response.sources[i].score,
                       file_path |-> agent_response.sources[i].file_path,
                       agent     |-> agent_name]]
    /\ next_agent' = next_agent + 1
    /\ pc' = OrchAfterDispatch
    /\ UNCHANGED <<query, intent_arg, intent, required_agents, all_document_citations,
                   agent_communications, cross_agent_insights, response,
                   document_summary, result>>

orchestrator_result(final_response) ==
    [query           |-> query,
     response        |-> final_response,
     involved_agents |-> required_agents,
     output_type     |-> intent,
     agent_responses |-> agent_data,
     sources         |-> all_sources]

\* lines 71-80 when no handler was involved: _synthesize_responses returns
\* its fixed sentence without a generation call
OrchNothingToSynthesize ==
    /\ pc = "orch_synthesize"
    /\ agent_data = EmptyDict
    /\ response' = NoInformation
    /\ result' = orchestrator_result(NoInformation)
    /\ pc' = "orch_returned"
    /\ UNCHANGED <<query, intent_arg, intent, required_agents, next_agent, agent_data,
                   all_sources, all_document_citations, agent_communications,
                   cross_agent_insights, document_summary, calls>>

\* lines 71-80 when the generation call of _synthesize_responses returns
OrchSynthesisReturns(text) ==
    /\ pc = "orch_synthesize"
    /\ agent_data # EmptyDict
    /\ calls' = Append(calls, Call("synthesis", intent, None))
    /\ response' = text
    /\ result' = orchestrator_result(text)
    /\ pc' = "orch_returned"
    /\ UNCHANGED <<query, intent_arg, intent, required_agents, next_agent, agent_data,
                   all_sources, all_document_citations, agent_communications,
                   cross_agent_insights, document_summary>>

\* line 71 when the generation call of _synthesize_responses raises
OrchSynthesisRaises ==
    /\ pc = "orch_synthesize"
    /\ agent_data # EmptyDict
    /\ calls' = Append(calls, Call("synthesis", intent, LlmError))
    /\ pc' = "orch_raised"
    /\ UNCHANGED <<query, intent_arg, intent, required_agents, next_agent, agent_data,
                   all_sources, all_document_citations, agent_communications,
                   cross_agent_insights, response, document_summary, result>>

NextOrchestrator ==
    \/ \E q \in OrchestratorQueries, supplied \in OrchestratorIntentArgs :
           OrchRoutingRaises(q, supplied)
    \/ \E q \in OrchestratorQueries, supplied \in OrchestratorIntentArgs,
           reply \in RoutingReplies : OrchProcessQuery(q, supplied, reply)
    \/ OrchUnknownAgent
    \/ \E message \in HandlerErrors : OrchDispatchRaises(message)
    \/ \E matches \in SearchResults, text \in ResponseTexts :
           OrchDispatchReturns(matches, text)
    \/ OrchNothingToSynthesize
    \/ \E text \in SynthesisTexts : OrchSynthesisReturns(text)
    \/ OrchSynthesisRaises

SpecOrchestrator == InitOrchestrator /\ [][NextOrchestrator]_vars

(***************************************************************************)
(* Two successive calls of SmartOrchestratorAgent.process_query on one      *)
(* instance.  The variables of the request hold what the earlier call left *)
(* in them until the later call assigns them; calls gets an entry          *)
(* "request" where the later call starts.                                  *)
(***************************************************************************)
\* the <<query, intent>> arguments of the two calls
SuccessiveRequests ==
    {<<"hello", None>>, <<"hello", "audit_report">>, <<"sop", "regulatory_research">>}

\* lines 68-79 of a call that follows a call which returned or raised
ProcessQueryAgain(q, supplied) ==
    /\ pc \in {"returned", "raised"}
    /\ \A i \in DOMAIN calls : calls[i].call # "request"
    /\ query' = q
    /\ intent_arg' = supplied
    /\ intent' = resolve_intent(q, supplied)
    /\ required_agents' \in determine_required_agents(q, intent')
    /\ next_agent' = 1
    /\ agent_data' = EmptyDict
    /\ all_sources' = << >>
    /\ all_document_citations' = << >>
    /\ agent_communications' = << >>
    /\ calls' = Append(calls, Call("request", q, None))
    /\ pc' = IF required_agents' = << >> THEN "correlate" ELSE "dispatch"
    /\ UNCHANGED <<cross_agent_insights, response, document_summary, result>>

NextSuccessive ==
    \/ \E request \in SuccessiveRequests : ProcessQuery(request[1], request[2])
    \/ \E request \in SuccessiveRequests : ProcessQueryAgain(request[1], request[2])
    \/ \E message \in HandlerErrors : DispatchRaises(message)
    \/ \E matches \in SearchResults, text \in ResponseTexts : DispatchReturns(matches, text)
    \/ \E outcome \in LlmOutcomes(InsightTexts) : CorrelateQualityAudit(outcome)
    \/ SkipQualityAudit
    \/ \E outcome \in LlmOutcomes(InsightTexts) : CorrelateSopRegulatory(outcome)
    \/ SkipSopRegulatory
    \/ \E text \in SynthesisTexts : SynthesisReturns(text)
    \/ SynthesisRaises

SpecSuccessive == Init /\ [][NextSuccessive]_vars

(***************************************************************************)
(* Properties.                                                             *)
(***************************************************************************)
AfterDispatchStages == {"correlate", "correlate_compliance", "synthesize", "returned", "raised"}

AfterCorrelationStages == {"synthesize", "returned", "raised"}

CallsOf(kind) == {i \in DOMAIN calls : calls[i].call = kind}

\* C1: every request has a non-empty list of involved handlers: the selector
\* never returns an empty list, and a returned result lists at least one
\* handler.
C1_InvolvedAgentsNonEmpty ==
    /\ pc \in {"dispatch"} \cup AfterDispatchStages => Len(required_agents) >= 1
    /\ pc = "returned" => Len(result.involved_agents) >= 1

\* C1 witness: a returned request in which no handler reached the threshold
C1_Witness ==
    /\ pc = "returned"
    /\ threshold_selection(agent_scores(agent_capabilities, lower(query), intent)) = << >>
    /\ result.involved_agents = << "internal_audit" >>

\* C2: a capability call that raises is recorded for its handler as an error
\* entry carrying the message, the other selected handlers are still called,
\* and the request goes on to synthesis and returns a response.
C2_HandlerFailureIsolated ==
    /\ \A i \in CallsOf("handler") :
           calls[i].raised # None =>
               /\ agent_data[calls[i].target] = [error |-> calls[i].raised]
               /\ \E j \in DOMAIN agent_communications :
                      agent_communications[j] =
                          [agent |-> calls[i].target, status |-> "error",
                           error |-> calls[i].raised]
    /\ pc \in AfterDispatchStages =>
           \A a \in Range(required_agents) : \E i \in CallsOf("handler") : calls[i].target = a
    /\ pc = "raised" => CallsOf("synthesis") # {}
    /\ pc = "returned" => result.response \in SynthesisTexts

\* C2 witness: three handlers selected, one call raised, the two others
\* completed, and a response was returned
C2_Witness ==
    /\ pc = "returned"
    /\ Len(required_agents) = 3
    /\ Cardinality({i \in CallsOf("handler") : calls[i].raised # None}) = 1
    /\ Cardinality({j \in DOMAIN result.agent_communications :
                       result.agent_communications[j].status = "completed"}) = 2
    /\ result.response = "answer"

\* C3: in a returned result, a handler recorded as error has no merged source
\* and no merged citation, and is listed in involved_agents with its error
\* entry in agent_communications.
C3_ErrorHandlerContributesNothing ==
    pc = "returned" =>
        \A a \in DOMAIN result.agent_data :
            (\/ "error" \in DOMAIN result.agent_data[a]
             \/ \E j \in DOMAIN result.agent_communications :
                    /\ result.agent_communications[j].agent = a
                    /\ result.agent_communications[j].status = "error")
            => /\ \A i \in DOMAIN result.sources : result.sources[i].agent # a
               /\ \A i \in DOMAIN result.document_citations :
                      result.document_citations[i].agent # a
               /\ a \in Range(result.involved_agents)
               /\ \E j \in DOMAIN result.agent_communications :
                      /\ result.agent_communications[j].agent = a
                      /\ result.agent_communications[j].status = "error"

\* C3 witness: a returned result with a failed handler and sources of another
C3_Witness ==
    /\ pc = "returned"
    /\ \E j \in DOMAIN result.agent_communications :
           result.agent_communications[j].status = "error"
    /\ Len(result.sources) >= 1
    /\ Len(result.document_citations) >= 1

\* C4: after dispatch each selected handler has one entry in agent_data and
\* one entry in agent_communications, completed or error, and no other
\* handler has an entry.
C4_OneEntryPerSelectedHandler ==
    /\ DOMAIN agent_data \subseteq Range(required_agents)
    /\ \A j \in DOMAIN agent_communications :
           /\ agent_communications[j].agent \in Range(required_agents)
           /\ agent_communications[j].status \in {"completed", "error"}
    /\ pc \in AfterDispatchStages =>
           /\ DOMAIN agent_data = Range(required_agents)
           /\ \A a \in Range(required_agents) :
                  Cardinality({j \in DOMAIN agent_communications :
                                  agent_communications[j].agent = a}) = 1

\* C4 witness: dispatch of three handlers is over, with both statuses present
C4_Witness ==
    /\ pc = "correlate"
    /\ Len(required_agents) = 3
    /\ \E j \in DOMAIN agent_communications : agent_communications[j].status = "error"
    /\ \E j \in DOMAIN agent_communications : agent_communications[j].status = "completed"

\* C5: in a returned result total_documents is the number of merged citations.
C5_TotalDocumentsIsCitationCount ==
    pc = "returned" =>
        result.document_summary.total_documents = Len(result.document_citations)

\* C5 witness: a returned result with two merged citations
C5_Witness ==
    /\ pc = "returned"
    /\ Len(result.document_citations) = 2
    /\ result.document_summary.total_documents = 2

\* C6: high_relevance_documents holds the citations scoring strictly above
\* 0.7, in citation order: one scoring exactly 0.7 is left out, one scoring
\* 0.70001 is kept.
C6_HighRelevanceStrictlyAboveCutoff ==
    pc = "summary_compiled" =>
        LET high     == Get(document_summary, "high_relevance_documents", << >>)
            expected == SelectSeq(all_document_citations,
                                  LAMBDA c : c.relevance_score > 70000)
        IN  /\ Len(high) = Len(expected)
            /\ \A i \in DOMAIN high :
                   /\ high[i].document_id = expected[i].document_id
                   /\ high[i].agent = expected[i].agent
                   /\ high[i].relevance_score = expected[i].relevance_score

\* C6 witness: citations scoring 0.65, 0.75 and 0.7 give one entry, the 0.75 one
C6_Witness ==
    /\ pc = "summary_compiled"
    /\ Len(all_document_citations) = 3
    /\ all_document_citations[1].relevance_score = 65000
    /\ all_document_citations[2].relevance_score = 75000
    /\ all_document_citations[3].relevance_score = 70000
    /\ Len(document_summary.high_relevance_documents) = 1
    /\ document_summary.high_relevance_documents[1].relevance_score = 75000

\* the pairs _facilitate_agent_communication correlates, with their keys
RegisteredPairs ==
    {[key |-> "quality_audit_correlation", first |-> "quality_systems",
      second |-> "internal_audit", prefix |-> "Error in correlation analysis: "],
     [key |-> "regulatory_compliance_gaps", first |-> "sop",
      second |-> "web_scraper", prefix |-> "Error in compliance analysis: "]}

HasResponseText(a) ==
    /\ a \in DOMAIN agent_data
    /\ "response" \in DOMAIN agent_data[a]
    /\ agent_data[a].response # ""

ActivePairs == {p \in RegisteredPairs : HasResponseText(p.first) /\ HasResponseText(p.second)}

\* C7 as stated: the correlation map has no entry for a pair with an empty or
\* missing side, and as many entries as pairs with both sides non-empty.
C7_EntryCountIsActivePairCount ==
    pc \in AfterCorrelationStages =>
        /\ \A p \in RegisteredPairs \ ActivePairs : p.key \notin DOMAIN cross_agent_insights
        /\ Cardinality(DOMAIN cross_agent_insights) = Cardinality(ActivePairs)

\* C7 amended: the map always has its five keys; the key of a registered
\* pair keeps the empty placeholder exactly when a side is empty or missing,
\* so the keys holding something else are as many as the pairs with both
\* sides non-empty.
C7_PlaceholderUnlessBothResponded ==
    pc \in AfterCorrelationStages =>
        /\ DOMAIN cross_agent_insights = DOMAIN InitialInsights
        /\ \A p \in RegisteredPairs :
               cross_agent_insights[p.key] # NoInsight <=> p \in ActivePairs
        /\ Cardinality({k \in DOMAIN cross_agent_insights :
                           cross_agent_insights[k] # NoInsight})
               = Cardinality(ActivePairs)

\* C7 witness: all four handlers have an entry, one pair has both texts and
\* the other has an empty side
C7_Witness ==
    /\ pc = "returned"
    /\ DOMAIN agent_data = {"quality_systems", "internal_audit", "sop", "web_scraper"}
    /\ Cardinality(ActivePairs) = 1
    /\ \E p \in RegisteredPairs \ ActivePairs :
           /\ "response" \in DOMAIN agent_data[p.first]
           /\ "response" \in DOMAIN agent_data[p.second]
           /\ cross_agent_insights[p.key] = NoInsight

\* C8: a correlation call that raises leaves the error marker under the key
\* of its pair, the other pair is still correlated, and the request reaches
\* synthesis.
C8_CorrelationFailureIsolated ==
    /\ \A i \in CallsOf("correlation") :
           calls[i].raised # None =>
               \E p \in RegisteredPairs :
                   /\ p.key = calls[i].target
                   /\ cross_agent_insights[p.key] = p.prefix \o calls[i].raised
    /\ pc \in AfterCorrelationStages =>
           \A p \in ActivePairs : \E i \in CallsOf("correlation") : calls[i].target = p.key
    /\ pc \in {"returned", "raised"} => CallsOf("synthesis") # {}

\* C8 witness: the first correlation call raised, the second returned its
\* insight, and the request returned
C8_Witness ==
    /\ pc = "returned"
    /\ \E i \in CallsOf("correlation") :
           calls[i].target = "quality_audit_correlation" /\ calls[i].raised # None
    /\ result.cross_agent_insights.quality_audit_correlation
           = "Error in correlation analysis: llm failure"
    /\ result.cross_agent_insights.regulatory_compliance_gaps = "insight"

\* C9: once the synthesis call has raised, process_query has raised: no result
\* and no response exist, whatever the template.
C9_SynthesisFailureIsFatal ==
    \A i \in CallsOf("synthesis") :
        calls[i].raised # None => pc = "raised" /\ result = None /\ response = None

\* C9 witness: the synthesis call of the general template raised
C9_Witness ==
    /\ pc = "raised"
    /\ calls # << >>
    /\ calls[Len(calls)] = [call |-> "synthesis", target |-> "general", raised |-> LlmError]
    /\ result = None

PatternScore(i, q) ==
    10 * Cardinality({k \in Range(intent_patterns[i].keywords) : Contains(k, lower(q))})

\* C10: the classifier returns the first-declared intent among those with the
\* largest positive number of matching keywords, and general_audit exactly
\* when no keyword of any intent matches.
C10_ClassifierPicksFirstHighest ==
    pc = "routing_intent" /\ intent_arg \in {None, ""} =>
        LET positive == {i \in DOMAIN intent_patterns : PatternScore(i, query) > 0}
        IN  /\ intent = "general_audit" <=> positive = {}
            /\ positive # {} =>
                   \E i \in positive :
                       /\ intent = intent_patterns[i].intent
                       /\ \A j \in positive :
                              /\ PatternScore(j, query) <= PatternScore(i, query)
                              /\ j < i => PatternScore(j, query) < PatternScore(i, query)

\* C10 witness: two intents tie with the highest score and the first wins
C10_Witness ==
    /\ pc = "routing_intent"
    /\ intent_arg = None
    /\ intent = "audit_checklist"
    /\ PatternScore(1, query) = 10
    /\ PatternScore(11, query) = 10
    /\ \A i \in DOMAIN intent_patterns : PatternScore(i, query) <= 10

Capabilities(agent) ==
    CHOOSE c \in Range(agent_capabilities) : c.agent = agent

NamesCompany(query_lower) == \E company \in companies : Contains(company, query_lower)

\* the score the handler selection rule gives a handler, in tenths
HandlerScore(agent, query_lower, the_intent) ==
    LET c == Capabilities(agent)
    IN  (IF the_intent \in c.primary_intents THEN 30
         ELSE IF the_intent \in c.secondary_intents THEN 15 ELSE 0)
        + 10 * Cardinality({k \in Range(c.keywords) : Contains(k, query_lower)})
        + (IF agent \in {"quality_systems", "web_scraper"} /\ NamesCompany(query_lower)
           THEN 10 ELSE 0)

Qualifying(q, the_intent) ==
    LET query_lower == lower(q)
    IN  {agent \in agents : HandlerScore(agent, query_lower, the_intent) >= 10}

\* C11: the selector returns exactly the handlers whose score is at least 1.0
\* (3.0 for a primary intent, else 1.5 for a secondary intent, plus 1.0 per
\* trigger keyword found in the query, plus 1.0 for quality_systems and
\* web_scraper when the query names a known company), and the default
\* singleton only when no handler has such a score.
C11_SelectorReturnsQualifyingHandlers ==
    pc = "routing_selected" =>
        LET qualifying == Qualifying(query, intent)
        IN  /\ Range(required_agents) =
                   IF qualifying = {} THEN {"internal_audit"} ELSE qualifying
            /\ \A agent \in agents :
                   ~ (intent \in Capabilities(agent).primary_intents
                        /\ intent \in Capabilities(agent).secondary_intents)

\* C11 witness: a selection in which a primary intent, a secondary intent, a
\* keyword and the company bonus all count, and two handlers stay below 1.0
C11_Witness ==
    /\ pc = "routing_selected"
    /\ query = "Hovione quality"
    /\ intent = "audit_report"
    /\ HandlerScore("internal_audit", lower(query), intent) = 30
    /\ HandlerScore("quality_systems", lower(query), intent) = 35
    /\ HandlerScore("web_scraper", lower(query), intent) = 10
    /\ Range(required_agents) = {"internal_audit", "quality_systems", "web_scraper"}

ChecklistQuery == "Generate a checklist for supplier audit of Acme Pharma"

MatchesIntentKeyword(query_lower) ==
    \E i \in DOMAIN intent_patterns :
        \E k \in Range(intent_patterns[i].keywords) : Contains(k, query_lower)

MatchesHandlerKeyword(query_lower) ==
    \E c \in Range(agent_capabilities) :
        \E k \in Range(c.keywords) : Contains(k, query_lower)

\* C14 as stated: a query without any intent keyword is classified as
\* general_audit and selects exactly internal_audit.
C14_NoIntentKeywordSelectsDefault ==
    pc = "routing_selected" /\ intent_arg \in {None, ""} =>
        (~ MatchesIntentKeyword(lower(query)) =>
            intent = "general_audit" /\ Range(required_agents) = {"internal_audit"})

\* C14: a query without any intent keyword is classified as general_audit and
\* the selection contains internal_audit; when the query also holds no
\* handler keyword and no known company, the selection is exactly
\* internal_audit.
C14_NoKeywordSelectsInternalAudit ==
    pc = "routing_selected" /\ intent_arg \in {None, ""} =>
        LET query_lower == lower(query)
        IN  ~ MatchesIntentKeyword(query_lower) =>
                /\ intent = "general_audit"
                /\ "internal_audit" \in Range(required_agents)
                /\ ~ MatchesHandlerKeyword(query_lower) /\ ~ NamesCompany(query_lower)
                       => Range(required_agents) = {"internal_audit"}

\* C14 witness: hello has been classified as general_audit and selects
\* internal_audit, by its secondary intent
C14_Witness ==
    /\ pc = "routing_selected"
    /\ query = "hello"
    /\ intent_arg = None
    /\ intent = "general_audit"
    /\ required_agents = << "internal_audit" >>
    /\ HandlerScore("internal_audit", "hello", intent) = 15

\* C15: for each of the eight queries of the routing test table the
\* classifier returns the intent the table expects.
C15_TestTableIntents ==
    pc = "routing_intent" /\ intent_arg \in {None, ""} =>
        \A i \in DOMAIN TestQueries :
            query = TestQueries[i] => intent = ExpectedIntents[i]

\* C16: whenever the intent is one of the intents of the routing test table,
\* the selected handlers include every handler the table expects for that
\* intent, whatever the query.
C16_SelectionCoversExpectedAgents ==
    pc = "routing_selected" =>
        \A i \in DOMAIN ExpectedIntents :
            intent = ExpectedIntents[i] => ExpectedAgents[i] \subseteq Range(required_agents)

SelectionFor(q, the_intent) ==
    IF Qualifying(q, the_intent) = {} THEN {"internal_audit"} ELSE Qualifying(q, the_intent)

\* C17: when the caller supplies an intent, the classifier is bypassed: the
\* supplied intent is the intent of the request from selection to the end, the
\* handlers are selected for it, the synthesis call goes to its template, and
\* the result reports it.
C17_SuppliedIntentUsedThroughout ==
    pc # "idle" /\ intent_arg \notin {None, ""} =>
        /\ intent = intent_arg
        /\ pc = "dispatch" /\ next_agent = 1 =>
               Range(required_agents) = SelectionFor(query, intent_arg)
        /\ \A i \in CallsOf("synthesis") :
               calls[i].target =
                   IF intent_arg \in DedicatedTemplates THEN intent_arg ELSE "general"
        /\ pc = "returned" => result.intent = intent_arg

\* C17 witness: a returned request whose supplied intent audit_report differs
\* from the classifier's general_audit and selects a second handler
C17_Witness ==
    /\ pc = "returned"
    /\ query = "hello"
    /\ intent_arg = "audit_report"
    /\ determine_audit_intent(query) = "general_audit"
    /\ result.intent = "audit_report"
    /\ Range(result.involved_agents) = {"internal_audit", "quality_systems"}
    /\ \E i \in CallsOf("synthesis") : calls[i].target = "audit_report"

\* C18: in a returned result the handler id of every merged source and of
\* every merged citation is a handler listed in involved_agents that has an
\* entry in agent_data of the same result.
C18_MergedRecordsBelongToInvolvedAgents ==
    pc = "returned" =>
        /\ \A i \in DOMAIN result.sources :
               /\ result.sources[i].agent \in Range(result.involved_agents)
               /\ result.sources[i].agent \in DOMAIN result.agent_data
        /\ \A i \in DOMAIN result.document_citations :
               /\ result.document_citations[i].agent \in Range(result.involved_agents)
               /\ result.document_citations[i].agent \in DOMAIN result.agent_data

\* C18 witness: a returned result of three handlers whose sources and
\* citations come from two of them
C18_Witness ==
    /\ pc = "returned"
    /\ Len(result.involved_agents) = 3
    /\ Len(result.sources) = 2
    /\ Len(result.document_citations) = 2
    /\ result.document_citations[1].agent # result.document_citations[2].agent

RECURSIVE SumOfCounts(_)
SumOfCounts(types) ==
    IF DOMAIN types = {} THEN 0
    ELSE LET k == CHOOSE x \in DOMAIN types : TRUE
         IN  types[k] + SumOfCounts([x \in DOMAIN types \ {k} |-> types[x]])

CountedExtension(citation) == lower(citation.file_extension)

\* C19 as stated: the counts of document_types sum to total_documents, a
\* citation with an empty extension being counted under "unknown".
C19_BucketsSumToTotal ==
    pc = "summary_compiled" =>
        /\ SumOfCounts(document_summary.document_types) = document_summary.total_documents
        /\ (\E i \in DOMAIN all_document_citations :
                all_document_citations[i].file_extension = "")
               => "unknown" \in DOMAIN document_summary.document_types

\* C19: document_types counts every citation with a non-empty file extension
\* in exactly one bucket, that of its lower-cased extension ("unknown" for
\* the extension "Unknown" of a citation without file path), and counts a
\* citation with an empty extension in no bucket; the counts sum to the number
\* of citations with a non-empty extension.
C19_NonEmptyExtensionsCounted ==
    pc = "summary_compiled" =>
        LET citations == all_document_citations
            types     == document_summary.document_types
        IN  /\ DOMAIN types = {CountedExtension(citations[i]) : i \in DOMAIN citations} \ {""}
            /\ \A e \in DOMAIN types :
                   types[e] = Cardinality({i \in DOMAIN citations :
                                              CountedExtension(citations[i]) = e})
            /\ SumOfCounts(types) =
                   Cardinality({i \in DOMAIN citations : citations[i].file_extension # ""})
            /\ SumOfCounts(types) <= document_summary.total_documents

\* C19 witness: a summary of three citations, one without file path, one
\* whose file has no extension and one PDF; two of them are counted
C19_Witness ==
    /\ pc = "summary_compiled"
    /\ Len(all_document_citations) = 3
    /\ {all_document_citations[i].file_extension : i \in 1..3} = {"Unknown", "", ".pdf"}
    /\ document_summary.total_documents = 3
    /\ document_summary.document_types = [x \in {"unknown", ".pdf"} |-> 1]

SummaryComponents ==
    {"total_documents", "document_types", "agents_used",
     "document_breakdown", "high_relevance_documents"}

\* C20 as stated: the document summary of every returned request has the
\* same five components, the breakdown and the high-relevance list being
\* empty when there are no citations.
C20_SameComponentsForEveryRequest ==
    pc = "returned" =>
        /\ DOMAIN result.document_summary = SummaryComponents
        /\ result.document_citations = << >> =>
               /\ result.document_summary.document_breakdown = EmptyDict
               /\ result.document_summary.high_relevance_documents = << >>

\* C20: the document summary of a returned request with at least one merged
\* citation has the five components; that of a request without citations has
\* only a zero total, an empty histogram and an empty list of handlers used,
\* and neither a breakdown nor a high-relevance list.
C20_EmptySummaryHasThreeComponents ==
    pc = "returned" =>
        IF result.document_citations = << >>
        THEN /\ DOMAIN result.document_summary =
                    {"total_documents", "document_types", "agents_used"}
             /\ result.document_summary.total_documents = 0
             /\ result.document_summary.document_types = EmptyDict
             /\ result.document_summary.agents_used = << >>
        ELSE DOMAIN result.document_summary = SummaryComponents

\* C20 witness: a returned request whose two handlers completed without
\* finding a document
C20_Witness ==
    /\ pc = "returned"
    /\ Len(result.involved_agents) = 2
    /\ \A j \in DOMAIN result.agent_communications :
           result.agent_communications[j].status = "completed"
    /\ result.document_citations = << >>
    /\ "document_breakdown" \notin DOMAIN result.document_summary

CitationsOfAgent(citations, a) == SelectSeq(citations, LAMBDA c : c.agent = a)

\* C21: document_breakdown has one group per handler of the merged citations;
\* the group of a handler lists that handler's citations, each once and in the
\* order of the merged list, and the group sizes sum to total_documents.
C21_BreakdownPartitionsByHandler ==
    pc = "summary_compiled" /\ all_document_citations # << >> =>
        LET citations == all_document_citations
            breakdown == document_summary.document_breakdown
        IN  /\ DOMAIN breakdown = {citations[i].agent : i \in DOMAIN citations}
            /\ \A a \in DOMAIN breakdown :
                   LET own == CitationsOfAgent(citations, a)
                   IN  breakdown[a] =
                           [j \in DOMAIN own |->
                               [document_id     |-> own[j].document_id,
                                relevance_score |-> own[j].relevance_score]]
            /\ SumOfCounts([a \in DOMAIN breakdown |-> Len(breakdown[a])])
                   = document_summary.total_documents

\* C21 witness: three citations of two handlers, one group of two citations
\* with different document ids and one group of one
C21_Witness ==
    /\ pc = "summary_compiled"
    /\ Len(all_document_citations) = 3
    /\ DOMAIN document_summary.document_breakdown = {"internal_audit", "sop"}
    /\ Len(document_summary.document_breakdown["sop"]) = 2
    /\ document_summary.document_breakdown["sop"][1].document_id = 1
    /\ document_summary.document_breakdown["sop"][2].document_id = 2

HasRecordedOutcome(a) ==
    /\ a \in DOMAIN agent_data
    /\ \E j \in DOMAIN agent_communications :
           /\ agent_communications[j].agent = a
           /\ agent_communications[j].status \in {"completed", "error"}

IssuedCall == calls'[Len(calls')]

\* C22: a correlation call or a synthesis call is issued only when every
\* selected handler has a recorded outcome, completed or error; a synthesis
\* call is issued only when every registered pair has been handled, that is
\* correlated or found to have a missing or empty side; and no handler is
\* called after a correlation or synthesis call.
C22_PhasesOrdered ==
    [][Len(calls') > Len(calls) =>
          /\ IssuedCall.call \in {"correlation", "synthesis"} =>
                 \A a \in Range(required_agents) : HasRecordedOutcome(a)
          /\ IssuedCall.call = "synthesis" =>
                 \A p \in RegisteredPairs :
                     \/ \E i \in CallsOf("correlation") : calls[i].target = p.key
                     \/ ~ (HasResponseText(p.first) /\ HasResponseText(p.second))
          /\ IssuedCall.call = "handler" =>
                 \A i \in DOMAIN calls : calls[i].call = "handler"
          /\ IssuedCall.call = "correlation" => CallsOf("synthesis") = {}]_vars

\* C22 witness: four handler outcomes, then both correlation calls, then the
\* synthesis call
C22_Witness ==
    /\ pc = "returned"
    /\ Len(calls) = 7
    /\ \A i \in 1..4 : calls[i].call = "handler"
    /\ calls[5].call = "correlation"
    /\ calls[6].call = "correlation"
    /\ calls[7].call = "synthesis"

HandlerCalls == SelectSeq(calls, LAMBDA c : c.call = "handler")

TimesInvoked(a) == Cardinality({i \in DOMAIN HandlerCalls : HandlerCalls[i].target = a})

\* C23: within a request the handlers invoked so far are the selected
\* handlers handled so far, each once, whether the call returned or raised;
\* once dispatch is over every selected handler has been invoked exactly once
\* and no other handler at all.
C23_EachSelectedHandlerInvokedOnce ==
    /\ pc # "idle" =>
           /\ Len(HandlerCalls) = next_agent - 1
           /\ \A i \in DOMAIN HandlerCalls : HandlerCalls[i].target = required_agents[i]
    /\ \A a \in agents :
           /\ TimesInvoked(a) <= 1
           /\ a \notin Range(required_agents) => TimesInvoked(a) = 0
           /\ pc \in AfterDispatchStages /\ a \in Range(required_agents)
                  => TimesInvoked(a) = 1

\* C23 witness: a returned request of three handlers, the first of which
\* raised, with three handler calls in the log
C23_Witness ==
    /\ pc = "returned"
    /\ Len(required_agents) = 3
    /\ Len(HandlerCalls) = 3
    /\ HandlerCalls[1].raised # None
    /\ HandlerCalls[2].raised = None

IntentsWithoutTemplate ==
    {"general_audit", "supplier_audit", "internal_audit", "regulatory_audit"}

ExpectedTemplate(the_intent) ==
    IF \/ the_intent \in IntentsWithoutTemplate
       \/ the_intent \notin {intent_patterns[j].intent : j \in DOMAIN intent_patterns}
    THEN "general" ELSE the_intent

\* C24: a request makes no synthesis call before the synthesis stage and
\* exactly one once that stage is over; the call goes to the template named by
\* the intent, or to the general template when the intent is general_audit,
\* supplier_audit, internal_audit, regulatory_audit or not an intent of the
\* classifier; the response of a returned result is the text that call
\* returned.
C24_OneSynthesisCallKeyedByIntent ==
    /\ Cardinality(CallsOf("synthesis")) = IF pc \in {"returned", "raised"} THEN 1 ELSE 0
    /\ \A i \in CallsOf("synthesis") :
           /\ i = Len(calls)
           /\ calls[i].target = ExpectedTemplate(intent)
    /\ \A x \in RoutingIntentArgs \cup {"general_audit"} :
           template_of(x) = ExpectedTemplate(x)
    /\ pc = "returned" =>
           /\ calls[Len(calls)].raised = None
           /\ result.response \in SynthesisTexts
           /\ result.response = response

\* C24 witness: a returned request whose intent has no dedicated template and
\* whose one synthesis call went to the general template
C24_Witness ==
    /\ pc = "returned"
    /\ intent = "supplier_audit"
    /\ Cardinality(CallsOf("synthesis")) = 1
    /\ calls[Len(calls)] = [call |-> "synthesis", target |-> "general", raised |-> None]
    /\ result.response = "answer"

ReplyUnparseable ==
    calls # << >> /\ calls[1] = [call |-> "routing", target |-> "unparseable", raised |-> None]

OrchestratorDone == pc \in {"orch_returned", "orch_raised"}

\* C25 as stated: in the routing path of OrchestratorAgent, when the routing
\* reply is no JSON, all five handlers are selected and each is dispatched.
C25_AllFiveSelectedAndDispatched ==
    ReplyUnparseable =>
        /\ Range(required_agents) = agents
        /\ OrchestratorDone => \A a \in agents : TimesInvoked(a) = 1

\* C25: in the routing path of OrchestratorAgent, when the routing reply is
\* no JSON, all five handlers are selected, in the order of the registry, and
\* they are dispatched in that order, each once, up to the first handler that
\* raises; all five are dispatched when none raises.
C25_AllFiveSelectedDispatchedUntilFailure ==
    ReplyUnparseable =>
        /\ required_agents = RegistryOrder
        /\ Len(HandlerCalls) <= 5
        /\ \A i \in DOMAIN HandlerCalls :
               /\ HandlerCalls[i].target = RegistryOrder[i]
               /\ HandlerCalls[i].raised # None => i = Len(HandlerCalls)
        /\ OrchestratorDone /\ (\A i \in DOMAIN HandlerCalls : HandlerCalls[i].raised = None)
               => Len(HandlerCalls) = 5
        /\ pc = "orch_returned" => result.involved_agents = RegistryOrder

\* C25 witness: the reply was no JSON, the five handlers were called in
\* registry order and the request returned
C25_Witness ==
    /\ ReplyUnparseable
    /\ pc = "orch_returned"
    /\ Len(HandlerCalls) = 5
    /\ HandlerCalls[5].target = "sop"
    /\ DOMAIN result.agent_responses = agents

\* C30: in the routing path of OrchestratorAgent, once a handler call has
\* raised, process_query has raised: that call is the last capability call,
\* the handlers after it are not called, the failed handler has no entry in
\* agent_responses, and there is no result.
C30_HandlerFailureEndsRequest ==
    \A i \in CallsOf("handler") :
        calls[i].raised # None =>
            /\ pc = "orch_raised"
            /\ i = Len(calls)
            /\ result = None
            /\ response = None
            /\ calls[i].target = required_agents[next_agent]
            /\ calls[i].target \notin DOMAIN agent_data
            /\ \A j \in (next_agent + 1)..Len(required_agents) :
                   TimesInvoked(required_agents[j]) = 0

\* C30 witness: three handlers were selected, the first returned, the second
\* raised and the third was never called
C30_Witness ==
    /\ pc = "orch_raised"
    /\ Len(required_agents) = 3
    /\ Len(HandlerCalls) = 2
    /\ HandlerCalls[1].raised = None
    /\ HandlerCalls[2].raised # None
    /\ TimesInvoked(required_agents[3]) = 0
    /\ result = None

\* C26: for every query and every intent with a dedicated template, each
\* handler whose response text the template reads is among the selected
\* handlers.
C26_TemplateReadsOnlySelectedHandlers ==
    pc = "routing_selected" /\ intent \in DedicatedTemplates =>
        template_reads(template_of(intent)) \subseteq Range(required_agents)

\* the condition of `if not required_agents`: no handler reached the threshold
DefaultBranchTaken(query_lower, the_intent) ==
    threshold_selection(agent_scores(agent_capabilities, query_lower, the_intent)) = << >>

InSomeHandlerIntents(the_intent) ==
    \E c \in Range(agent_capabilities) :
        the_intent \in c.primary_intents \cup c.secondary_intents

\* C27: for every query, with the intent the classifier returns at least one
\* handler reaches the threshold, so the default-singleton branch is not
\* taken; the branch is taken only with a caller-supplied intent that is in no
\* handler's primary or secondary set, together with a query that holds no
\* handler keyword and no known company, and it is taken for every such pair.
C27_DefaultBranchOnlyForUnknownSuppliedIntent ==
    pc = "routing_selected" =>
        LET query_lower == lower(query)
            taken == DefaultBranchTaken(query_lower, intent)
        IN  /\ intent_arg \in {None, ""} =>
                   ~ taken /\ InSomeHandlerIntents(intent)
            /\ taken <=>
                   /\ intent_arg \notin {None, ""}
                   /\ ~ InSomeHandlerIntents(intent)
                   /\ ~ MatchesHandlerKeyword(query_lower)
                   /\ ~ NamesCompany(query_lower)
            /\ \A i \in DOMAIN intent_patterns :
                   InSomeHandlerIntents(intent_patterns[i].intent)
            /\ InSomeHandlerIntents("general_audit")
            /\ SecondaryScore >= threshold

\* C27 witness: hello with the caller-supplied intent custom_intent gives every
\* handler score 0, and the default branch returns internal_audit
C27_Witness ==
    /\ pc = "routing_selected"
    /\ query = "hello"
    /\ intent_arg = "custom_intent"
    /\ intent = "custom_intent"
    /\ DefaultBranchTaken(lower(query), intent)
    /\ required_agents = << "internal_audit" >>

\* the sum of documents_found over the completed entries of a communications list
RECURSIVE DocumentsFoundByCompleted(_)
DocumentsFoundByCompleted(entries) ==
    IF entries = << >> THEN 0
    ELSE (IF Head(entries).status = "completed" THEN Head(entries).documents_found ELSE 0)
            + DocumentsFoundByCompleted(Tail(entries))

\* C28: in every result the merged sources and the merged document citations
\* have the same length, and that length is the sum of documents_found over
\* the entries of agent_communications whose status is completed.
C28_MergedListsMatchDocumentsFound ==
    pc = "returned" =>
        /\ Len(result.sources) = Len(result.document_citations)
        /\ Len(result.sources) = DocumentsFoundByCompleted(result.agent_communications)

\* C28 witness: a result with two merged sources from two handlers, and a
\* third handler that failed and contributed none
C28_Witness ==
    /\ pc = "returned"
    /\ Len(result.sources) = 2
    /\ Len(result.document_citations) = 2
    /\ result.sources[1].agent # result.sources[2].agent
    /\ \E i \in DOMAIN result.agent_communications :
           result.agent_communications[i].status = "error"

\* the position in calls where the later request starts, 0 when there is none
LaterRequestStart ==
    IF \E i \in DOMAIN calls : calls[i].call = "request"
    THEN CHOOSE i \in DOMAIN calls : calls[i].call = "request"
    ELSE 0

IsHandlerCall(c) == c.call = "handler"

\* C29: successive requests on one instance are independent: the result of a
\* later request holds the later request's query, intent and selection, an
\* outcome for exactly the handlers called in the later request, sources and
\* citations only of handlers that returned in the later request, an insight
\* only where the later request issued the correlation call, the text of the
\* later request's one synthesis call and the summary of its own citations,
\* whatever the earlier request did, also when it failed in synthesis.
C29_LaterResultHoldsNothingOfEarlierRequest ==
    pc = "returned" /\ LaterRequestStart > 0 =>
        LET mine    == SubSeq(calls, LaterRequestStart + 1, Len(calls))
            handler == SelectSeq(mine, IsHandlerCall)
            handled == {handler[i].target : i \in DOMAIN handler}
            answered == {handler[i].target : i \in {j \in DOMAIN handler : handler[j].raised = None}}
            synthesis == {i \in DOMAIN mine : mine[i].call = "synthesis"}
        IN  /\ result.query = query
            /\ calls[LaterRequestStart].target = result.query
            /\ result.intent = resolve_intent(query, intent_arg)
            /\ result.involved_agents \in determine_required_agents(query, result.intent)
            /\ handled = Range(result.involved_agents)
            /\ DOMAIN result.agent_data = handled
            /\ Len(result.agent_communications) = Len(handler)
            /\ \A i \in DOMAIN handler :
                   result.agent_communications[i].agent = handler[i].target
            /\ \A i \in DOMAIN result.sources : result.sources[i].agent \in answered
            /\ \A i \in DOMAIN result.document_citations :
                   result.document_citations[i].agent \in answered
            /\ Len(result.sources) = DocumentsFoundByCompleted(result.agent_communications)
            /\ Len(result.document_citations) = Len(result.sources)
            /\ DOMAIN result.cross_agent_insights = DOMAIN InitialInsights
            /\ \A key \in DOMAIN result.cross_agent_insights :
                   result.cross_agent_insights[key] # NoInsight =>
                       \E i \in DOMAIN mine :
                           mine[i].call = "correlation" /\ mine[i].target = key
            /\ Cardinality(synthesis) = 1
            /\ \A i \in synthesis :
                   mine[i].target = template_of(result.intent) /\ mine[i].raised = None
            /\ result.response \in SynthesisTexts
            /\ result.document_summary = compile_document_summary(result.document_citations)

\* C29 witness: the earlier request selected sop and web_scraper, ran their
\* correlation and failed in synthesis; the later request, hello, returned a
\* result with one source of internal_audit and no insight
C29_Witness ==
    /\ pc = "returned"
    /\ LaterRequestStart > 1
    /\ calls[LaterRequestStart - 1].call = "synthesis"
    /\ calls[LaterRequestStart - 1].raised = LlmError
    /\ \E i \in 1..(LaterRequestStart - 1) :
           calls[i].call = "correlation" /\ calls[i].raised = None
    /\ result.query = "hello"
    /\ result.involved_agents = << "internal_audit" >>
    /\ Len(result.sources) = 1
    /\ result.cross_agent_insights = InitialInsights

====
